---- MODULE Spec2Model ----
(***************************************************************************)
(* Model of the evaluation engine of day1/02_streamlit_app:                *)
(*   metrics.py   calculate_metrics, calculate_overall_quality_score       *)
(*   database.py  save_to_db, clear_db                                     *)
(*   ui.py        the chat page, its feedback form, the clear button       *)
(*                                                                         *)
(* Texts are run-length encoded: a text is a sequence of runs              *)
(* [ch |-> character, n |-> repetitions >= 1] in which adjacent runs have  *)
(* different characters, so that len(), re.split, str.strip, str.lower,    *)
(* str.split and re.findall are computed exactly on texts of any length.   *)
(* Characters outside ASCII are named by their code point ("U826F").       *)
(* Scores are exact rationals [num, den] in lowest terms.                  *)
(***************************************************************************)
EXTENDS Integers, Sequences, FiniteSets, TLC

VARIABLES
    answer,             \* calculate_metrics argument (candidate)
    correct_answer,     \* calculate_metrics argument (reference)
    nltk_loaded,        \* TRUE iff the module-level NLTK import block succeeded
    faults,             \* the steps of this call in which a library call raises
    pc,                 \* position inside calculate_metrics
    tokens,             \* local: list(tokenizer.tokenize(answer)), as surfaces
    word_count, bleu_score, similarity_score, relevance_score,
    sentiment_score, readability_score, diversity_score, conciseness_score,
    invoked,            \* the steps entered so far (history of the call)
    metrics_dict,       \* calculate_overall_quality_score argument
    quality_score,      \* its return value
    agg_pc,             \* position of the aggregator call
    chat_messages,      \* st.session_state.chat_messages
    current_question,   \* st.session_state.current_question ("" when empty)
    current_answer,     \* st.session_state.current_answer (a text)
    response_time,      \* st.session_state.response_time
    feedback_given,     \* st.session_state.feedback_given
    confirm_clear,      \* st.session_state.confirm_clear
    llm_calls,          \* the questions passed to generate_response, in order
    table,              \* the rows of chat_history, in insertion order
    clear_result,       \* what the last call of clear_db returned
    shown               \* the messages the last handler displayed

inputs  == <<answer, correct_answer, nltk_loaded, faults>>
scores  == <<word_count, bleu_score, similarity_score, relevance_score,
             sentiment_score, readability_score, diversity_score, conciseness_score>>
aggvars == <<metrics_dict, quality_score, agg_pc>>
session == <<chat_messages, current_question, current_answer, response_time,
             feedback_given, confirm_clear>>
appvars == <<session, llm_calls, table, clear_result, shown>>
vars    == <<inputs, pc, tokens, scores, invoked, aggvars, appvars>>

(***************************************************************************)
(* Exact rational arithmetic (Python floats on the values met here)        *)
(***************************************************************************)
RECURSIVE GCD(_, _)
GCD(a, b) == IF b = 0 THEN a ELSE GCD(b, a % b)

Abs(x) == IF x < 0 THEN -x ELSE x

Rat(n, d) == LET g == GCD(Abs(n), d) IN [num |-> n \div g, den |-> d \div g]

Zero == Rat(0, 1)
One  == Rat(1, 1)
Half == Rat(1, 2)

RatAdd(a, b) == Rat(a.num * b.den + b.num * a.den, a.den * b.den)
RatSub(a, b) == Rat(a.num * b.den - b.num * a.den, a.den * b.den)
RatMul(a, b) == Rat(a.num * b.num, a.den * b.den)
RatDivInt(a, k) == Rat(a.num, a.den * k)
RatAbs(a) == [num |-> Abs(a.num), den |-> a.den]
RatLE(a, b) == a.num * b.den <= b.num * a.den
RatLT(a, b) == a.num * b.den < b.num * a.den
RatMax(a, b) == IF RatLE(a, b) THEN b ELSE a
RatMin(a, b) == IF RatLE(a, b) THEN a ELSE b
InUnit(a) == RatLE(Zero, a) /\ RatLE(a, One)

(***************************************************************************)
(* Characters and texts                                                    *)
(***************************************************************************)
LatinLower  == {"a", "b"}
LatinUpper  == {"A", "B"}
SpaceChars  == {" "}
\* the character class of re.split(r'[U3002.!?]', answer)
Terminators == {"U3002", ".", "!", "?"}

\* the fallback sentiment word lists, as character sequences
positive_words ==
    << <<"U826F", "U3044">>,
       <<"U7D20", "U6674", "U3089", "U3057", "U3044">>,
       <<"U512A", "U308C", "U305F">>,
       <<"U7C21", "U5358">>,
       <<"U52B9", "U679C", "U7684">>,
       <<"U5F79", "U7ACB", "U3064">> >>

negative_words ==
    << <<"U60AA", "U3044">>,
       <<"U96E3", "U3057", "U3044">>,
       <<"U8907", "U96D1">>,
       <<"U554F", "U984C">>,
       <<"U56F0", "U96E3">>,
       <<"U6B20", "U70B9">> >>

JaChars == UNION { {w[i] : i \in DOMAIN w} :
                   w \in {positive_words[k] : k \in DOMAIN positive_words}
                         \cup {negative_words[k] : k \in DOMAIN negative_words} }

\* the characters matched by \w
WordChars == LatinLower \cup LatinUpper \cup JaChars

Run(c, k) == [ch |-> c, n |-> k]

IsCanonical(t) == \A i \in 1..(Len(t) - 1) : t[i].ch # t[i + 1].ch

\* len(text)
RECURSIVE TextLen(_)
TextLen(t) == IF t = <<>> THEN 0 ELSE Head(t).n + TextLen(Tail(t))

\* append a run, merging it with an equal neighbour
Push(t, r) ==
    IF t # <<>> /\ t[Len(t)].ch = r.ch
    THEN [t EXCEPT ![Len(t)].n = @ + r.n]
    ELSE Append(t, r)

LowerChar(c) == IF c = "A" THEN "a" ELSE IF c = "B" THEN "b" ELSE c

\* str.lower()
RECURSIVE LowerFrom(_, _)
LowerFrom(t, acc) ==
    IF t = <<>> THEN acc
    ELSE LowerFrom(Tail(t), Push(acc, Run(LowerChar(Head(t).ch), Head(t).n)))

lower(t) == LowerFrom(t, <<>>)

\* str.strip()
RECURSIVE lstrip(_)
lstrip(t) == IF t # <<>> /\ Head(t).ch \in SpaceChars THEN lstrip(Tail(t)) ELSE t

RECURSIVE rstrip(_)
rstrip(t) ==
    IF t # <<>> /\ t[Len(t)].ch \in SpaceChars
    THEN rstrip(SubSeq(t, 1, Len(t) - 1)) ELSE t

strip(t) == rstrip(lstrip(t))

\* re.split(r'[U3002.!?]', t): every terminator character ends a fragment
RECURSIVE SplitFrom(_, _, _)
SplitFrom(t, cur, out) ==
    IF t = <<>> THEN Append(out, cur)
    ELSE IF Head(t).ch \in Terminators
         THEN SplitFrom(Tail(t), <<>>,
                        Append(out, cur) \o [i \in 1..(Head(t).n - 1) |-> <<>>])
         ELSE SplitFrom(Tail(t), Append(cur, Head(t)), out)

re_split(t) == SplitFrom(t, <<>>, <<>>)

\* the maximal pieces of t made of characters of `keep`, in order
RECURSIVE PiecesFrom(_, _, _, _)
PiecesFrom(t, keep, cur, out) ==
    IF t = <<>> THEN (IF cur = <<>> THEN out ELSE Append(out, cur))
    ELSE IF Head(t).ch \in keep
         THEN PiecesFrom(Tail(t), keep, Append(cur, Head(t)), out)
         ELSE PiecesFrom(Tail(t), keep, <<>>, IF cur = <<>> THEN out ELSE Append(out, cur))

\* re.findall(r'\w+', t)
re_findall_words(t) == PiecesFrom(t, WordChars, <<>>, <<>>)

AllChars == WordChars \cup SpaceChars \cup Terminators

\* text.split(): the fallback nltk_word_tokenize
split(t) == PiecesFrom(t, AllChars \ SpaceChars, <<>>, <<>>)

\* the character classes by which the tokenizers group characters
CharClass(c) ==
    IF c \in LatinLower \cup LatinUpper THEN "alpha"
    ELSE IF c \in JaChars THEN "ja"
    ELSE IF c \in SpaceChars THEN "space"
    ELSE "symbol"

\* the maximal pieces of t whose characters have one class, as [cls, surface]
RECURSIVE GroupFrom(_, _)
GroupFrom(t, out) ==
    IF t = <<>> THEN out
    ELSE LET c == CharClass(Head(t).ch) IN
         IF out # <<>> /\ out[Len(out)].cls = c
         THEN GroupFrom(Tail(t), [out EXCEPT ![Len(out)].surface = Append(@, Head(t))])
         ELSE GroupFrom(Tail(t), Append(out, [cls |-> c, surface |-> <<Head(t)>>]))

Surfaces(groups) == [i \in DOMAIN groups |-> groups[i].surface]

\* the characters of a text, one by one
RECURSIVE Expand(_)
Expand(t) ==
    IF t = <<>> THEN <<>>
    ELSE [i \in 1..Head(t).n |-> Head(t).ch] \o Expand(Tail(t))

\* the text of a sequence of characters
RECURSIVE Encode(_)
Encode(cs) == IF cs = <<>> THEN <<>> ELSE Push(Encode(SubSeq(cs, 1, Len(cs) - 1)), Run(cs[Len(cs)], 1))

\* the entries of janome's dictionary that AllChars can spell
JaLexicon ==
    { <<"U826F", "U3044">>, <<"U60AA", "U3044">>,
      <<"U7D20", "U6674", "U3089", "U3057", "U3044">>, <<"U96E3", "U3057", "U3044">>,
      <<"U7C21", "U5358">>, <<"U8907", "U96D1">>, <<"U554F", "U984C">>,
      <<"U56F0", "U96E3">>, <<"U6B20", "U70B9">>, <<"U5F79", "U7ACB", "U3064">> }

\* a piece of Japanese characters cut into dictionary words, the longest entry
\* first; a character that starts no entry is a token of its own
RECURSIVE JaSegment(_, _)
JaSegment(cs, out) ==
    IF cs = <<>> THEN out
    ELSE LET hits == {w \in JaLexicon : Len(w) <= Len(cs) /\ SubSeq(cs, 1, Len(w)) = w}
             k == IF hits = {} THEN 1
                  ELSE Len(CHOOSE w \in hits : \A v \in hits : Len(v) <= Len(w))
         IN  JaSegment(SubSeq(cs, k + 1, Len(cs)), Append(out, Encode(SubSeq(cs, 1, k))))

RECURSIVE TokensFrom(_, _)
TokensFrom(groups, out) ==
    IF groups = <<>> THEN out
    ELSE TokensFrom(Tail(groups),
                    IF Head(groups).cls = "ja"
                    THEN out \o JaSegment(Expand(Head(groups).surface), <<>>)
                    ELSE Append(out, Head(groups).surface))

\* Tokenizer().tokenize(text) of janome, as the surface forms: a piece of
\* Latin letters, of white space or of symbols is one token, a piece of
\* Japanese characters is cut into dictionary words
tokenize(t) == TokensFrom(GroupFrom(t, <<>>), <<>>)

\* word_tokenize of NLTK: words and punctuation, white space dropped
word_tokenize(t) ==
    Surfaces(SelectSeq(GroupFrom(t, <<>>), LAMBDA g : g.cls # "space"))

\* `word in text` for a word whose adjacent characters differ
Contains(t, w) ==
    \E i \in 1..(Len(t) - Len(w) + 1) :
        \A j \in 1..Len(w) :
            /\ t[i + j - 1].ch = w[j]
            /\ (1 < j /\ j < Len(w)) => t[i + j - 1].n = 1

ToSet(s) == {s[i] : i \in DOMAIN s}

\* the sum of f over the set S
RECURSIVE SumF(_, _)
SumF(f, S) ==
    IF S = {} THEN 0
    ELSE LET x == CHOOSE y \in S : TRUE IN f[x] + SumF(f, S \ {x})

\* the number of occurrences of x in the sequence s
Count(s, x) == Cardinality({i \in DOMAIN s : s[i] = x})

\* the largest k with k * k <= x
ISqrt(x) == CHOOSE k \in 0..x : k * k <= x /\ x < (k + 1) * (k + 1)

(***************************************************************************)
(* The sub-scorers of calculate_metrics                                    *)
(***************************************************************************)
Scorers == {"tokenizer", "sentiment", "readability", "diversity", "conciseness",
            "bleu", "similarity", "relevance"}

\* sia.polarity_scores(text)['compound']: no word that can be written with
\* AllChars is an entry of the VADER lexicon, so the valences sum to 0
polarity_compound(t) == Zero

\* lines 66-70
sentiment_primary(ans) == RatDivInt(RatAdd(polarity_compound(lower(ans)), One), 2)

\* a variant that reports the share of the negative words
sentiment_keywords_negative(ans) ==
    LET pos_count == Cardinality({k \in DOMAIN positive_words : Contains(ans, positive_words[k])})
        neg_count == Cardinality({k \in DOMAIN negative_words : Contains(ans, negative_words[k])})
        total     == pos_count + neg_count
    IN  IF total > 0 THEN Rat(neg_count, total) ELSE Half

\* lines 73-83
sentiment_keywords(ans) ==
    LET pos_count == Cardinality({k \in DOMAIN positive_words : Contains(ans, positive_words[k])})
        neg_count == Cardinality({k \in DOMAIN negative_words : Contains(ans, negative_words[k])})
        total     == pos_count + neg_count
    IN  IF total > 0 THEN Rat(pos_count, total) ELSE Half

\* the sentiment step: SentimentIntensityAnalyzer is unbound when the import
\* block failed, and raises when its lexicon cannot be loaded
sentiment(ans, loaded, fault) ==
    IF loaded /\ ~fault THEN sentiment_primary(ans) ELSE sentiment_keywords(ans)

IdealSentenceLength == 40

\* a variant: a triangle 1 - |avg - 40| / 40 instead of 2 - |avg - 40| / 40
readability_triangular(ans, fault) ==
    IF fault THEN Zero
    ELSE LET sentences == SelectSeq(re_split(ans), LAMBDA s : strip(s) # <<>>) IN
         IF Len(sentences) > 0
         THEN LET avg_sentence_length == Rat(TextLen(ans), Len(sentences))
                  off == RatAbs(RatSub(avg_sentence_length, Rat(IdealSentenceLength, 1)))
              IN  RatMax(Zero, RatMin(One, RatSub(One, RatDivInt(off, IdealSentenceLength))))
         ELSE Zero

\* a variant: the blank fragments are not discarded
readability_unfiltered(ans, fault) ==
    IF fault THEN Zero
    ELSE LET sentences == re_split(ans) IN
         IF Len(sentences) > 0
         THEN LET avg_sentence_length == Rat(TextLen(ans), Len(sentences))
                  off == RatAbs(RatSub(avg_sentence_length, Rat(IdealSentenceLength, 1)))
              IN  RatMax(Zero, RatMin(One, RatSub(Rat(2, 1), RatDivInt(off, IdealSentenceLength))))
         ELSE Zero

\* the readability step
readability(ans, fault) ==
    IF fault THEN Zero
    ELSE LET sentences == SelectSeq(re_split(ans), LAMBDA s : strip(s) # <<>>) IN
         IF Len(sentences) > 0
         THEN LET avg_sentence_length == Rat(TextLen(ans), Len(sentences))
                  off == RatAbs(RatSub(avg_sentence_length, Rat(IdealSentenceLength, 1)))
              IN  RatMax(Zero, RatMin(One, RatSub(Rat(2, 1), RatDivInt(off, IdealSentenceLength))))
         ELSE Zero

\* the diversity step
\* a variant that puts the token objects, not their surfaces, into the set
diversity_by_identity(toks, fault) ==
    IF fault THEN Zero
    ELSE IF toks # <<>> THEN Rat(Len(toks), Len(toks)) ELSE Zero

diversity(toks, fault) ==
    IF fault THEN Zero
    ELSE IF toks # <<>> THEN Rat(Cardinality(ToSet(toks)), Len(toks)) ELSE Zero

TooShort == 50
TooLong  == 300
LongSpan == 700

\* a variant: the score of a long answer is not clamped at 0
conciseness_unclamped(ans, fault) ==
    IF fault THEN Zero
    ELSE LET char_length == TextLen(ans) IN
         IF char_length < TooShort THEN Rat(char_length, TooShort)
         ELSE IF char_length <= TooLong THEN One
         ELSE RatSub(One, Rat(char_length - TooLong, LongSpan))

\* the conciseness step
conciseness(ans, fault) ==
    IF fault THEN Zero
    ELSE LET char_length == TextLen(ans) IN
         IF char_length < TooShort THEN Rat(char_length, TooShort)
         ELSE IF char_length <= TooLong THEN One
         ELSE RatMax(Zero, RatSub(One, Rat(char_length - TooLong, LongSpan)))

\* nltk_word_tokenize as bound at module level
nltk_word_tokenize(t, loaded) == IF loaded THEN word_tokenize(t) ELSE split(t)

\* the fallback nltk_sentence_bleu(references, candidate): F1 over unique words
nltk_sentence_bleu_fallback(references, candidate) ==
    LET ref_words    == ToSet(references[1])
        cand_words   == ToSet(candidate)
        common_words == ref_words \cap cand_words
        precision == IF cand_words # {} THEN Rat(Cardinality(common_words), Cardinality(cand_words)) ELSE Zero
        recall    == IF ref_words # {} THEN Rat(Cardinality(common_words), Cardinality(ref_words)) ELSE Zero
        sum       == RatAdd(precision, recall)
    IN  IF RatLT(Zero, sum)
        THEN Rat(2 * precision.num * recall.num * sum.den, precision.den * recall.den * sum.num)
        ELSE Zero

\* the parameters the fallback accepts, and the keywords the BLEU step passes
fallback_bleu_params == {"references", "candidate"}
bleu_call_keywords   == {"weights"}

Ngrams(s, k) ==
    IF Len(s) < k THEN <<>> ELSE [i \in 1..(Len(s) - k + 1) |-> SubSeq(s, i, i + k - 1)]

\* modified n-gram precision of NLTK: clipped matches over hypothesis n-grams
modified_precision(ref, hyp, k) ==
    LET hg == Ngrams(hyp, k)
        rg == Ngrams(ref, k)
        clipped == [g \in ToSet(hg) |->
                       IF Count(hg, g) < Count(rg, g) THEN Count(hg, g) ELSE Count(rg, g)]
    IN  [num |-> SumF(clipped, ToSet(hg)), den |-> IF Len(hg) > 1 THEN Len(hg) ELSE 1]

MaxOrder == 4

\* sentence_bleu of NLTK with weights (0.25, 0.25, 0.25, 0.25) and one reference.
\* A precision of 0 makes the score 0 (for orders above 1 NLTK returns a value
\* below 1e-70); the 4th root is taken down to tenths and the brevity penalty
\* exp(-x), x = (r - c) / c, as 1 / (1 + x + x^2 / 2).
nltk_sentence_bleu_primary(references, hyp) ==
    LET ref == references[1]
        p == [k \in 1..MaxOrder |-> modified_precision(ref, hyp, k)]
        N == p[1].num * p[2].num * p[3].num * p[4].num
        D == p[1].den * p[2].den * p[3].den * p[4].den
        root == CHOOSE k \in 0..10 :
                    /\ k * k * k * k * D <= N * 10000
                    /\ (k < 10 => (k + 1) * (k + 1) * (k + 1) * (k + 1) * D > N * 10000)
        c == Len(hyp)
        r == Len(ref)
        bp == IF c >= r THEN One
              ELSE Rat(2 * c * c, 2 * c * c + 2 * c * (r - c) + (r - c) * (r - c))
    IN  IF N = 0 THEN Zero ELSE RatMul(bp, Rat(root, 10))

\* the BLEU step
bleu(ans, ref, loaded, fault) ==
    IF fault THEN Zero
    ELSE LET reference == <<nltk_word_tokenize(lower(ref), loaded)>>
             candidate == nltk_word_tokenize(lower(ans), loaded)
         IN  IF candidate # <<>>
             THEN IF loaded THEN nltk_sentence_bleu_primary(reference, candidate)
                  ELSE IF bleu_call_keywords \subseteq fallback_bleu_params
                       THEN nltk_sentence_bleu_fallback(reference, candidate)
                       ELSE Zero    \* TypeError, caught by the step's except
             ELSE Zero

\* the tokens of TfidfVectorizer(): lower-cased words of two or more characters
tfidf_analyze(t) == SelectSeq(re_findall_words(t), LAMBDA w : TextLen(w) >= 2)

IdfShared == 1000
IdfSingle == 1975

\* cosine_similarity of the two TF-IDF rows, down to hundredths. With two
\* documents idf is 1 for a term of both and ln(3/2) + 1 for a term of one;
\* its square is taken in thousandths (1.975).
tfidf_cosine(a, b) ==
    LET A == ToSet(a)
        B == ToSet(b)
        dot == SumF([g \in A \cap B |-> Count(a, g) * Count(b, g)], A \cap B)
        NA == SumF([g \in A |-> Count(a, g) * Count(a, g) *
                                 (IF g \in B THEN IdfShared ELSE IdfSingle)], A)
        NB == SumF([g \in B |-> Count(b, g) * Count(b, g) *
                                 (IF g \in A THEN IdfShared ELSE IdfSingle)], B)
    IN  IF dot = 0 THEN Zero
        ELSE Rat(ISqrt((((dot * dot * 1000000) \div NA) * 10000) \div NB), 100)

\* the similarity step; fit_transform raises ValueError on an empty vocabulary
similarity(ans, ref, fault) ==
    IF fault THEN Zero
    ELSE IF strip(lower(ans)) # <<>> /\ strip(lower(ref)) # <<>>
         THEN LET a == tfidf_analyze(lower(ans))
                  b == tfidf_analyze(lower(ref))
              IN  IF a = <<>> /\ b = <<>> THEN Zero ELSE tfidf_cosine(a, b)
         ELSE Zero

\* a variant: the common words are divided by the words of the answer
relevance_of_answer(ans, ref, fault) ==
    IF fault THEN Zero
    ELSE LET answer_words  == ToSet(re_findall_words(lower(ans)))
             correct_words == ToSet(re_findall_words(lower(ref)))
         IN  IF Cardinality(answer_words) > 0
             THEN Rat(Cardinality(answer_words \cap correct_words), Cardinality(answer_words))
             ELSE Zero

\* the relevance step
relevance(ans, ref, fault) ==
    IF fault THEN Zero
    ELSE LET answer_words  == ToSet(re_findall_words(lower(ans)))
             correct_words == ToSet(re_findall_words(lower(ref)))
         IN  IF Cardinality(correct_words) > 0
             THEN Rat(Cardinality(answer_words \cap correct_words), Cardinality(correct_words))
             ELSE Zero

(***************************************************************************)
(* calculate_metrics, one action per step                                  *)
(***************************************************************************)
\* lines 45-54: the values the scores are initialised to
Defaults ==
    /\ word_count = 0
    /\ bleu_score = Zero
    /\ similarity_score = Zero
    /\ relevance_score = Zero
    /\ sentiment_score = Half
    /\ readability_score = Zero
    /\ diversity_score = Zero
    /\ conciseness_score = Zero

\* a fresh session over an empty table: the defaults display_chat_page and
\* clear_db give to the keys that are not yet in st.session_state
SessionStart ==
    /\ chat_messages = <<>>
    /\ current_question = ""
    /\ current_answer = <<>>
    /\ response_time = Zero
    /\ feedback_given = FALSE
    /\ confirm_clear = FALSE
    /\ llm_calls = <<>>
    /\ table = <<>>
    /\ clear_result = "none"
    /\ shown = {}

\* the state at the call of calculate_metrics(a, c)
CallState(a, c, loaded, f) ==
    /\ SessionStart
    /\ answer = a
    /\ correct_answer = c
    /\ nltk_loaded = loaded
    /\ faults = f
    /\ pc = "entry"
    /\ tokens = <<>>
    /\ invoked = {}
    /\ Defaults
    /\ metrics_dict = << >>
    /\ quality_score = Zero
    /\ agg_pc = "idle"

\* a variant: the early return is also taken when the reference is empty
EntryRequiresReference ==
    /\ pc = "entry"
    /\ pc' = IF answer = <<>> \/ correct_answer = <<>> THEN "done" ELSE "tokenizer"
    /\ UNCHANGED <<inputs, tokens, scores, invoked, aggvars, appvars>>

\* a variant: no early return for an empty answer
EntryWithoutGuard ==
    /\ pc = "entry"
    /\ pc' = "tokenizer"
    /\ UNCHANGED <<inputs, tokens, scores, invoked, aggvars, appvars>>

\* `if not answer: return ...`
Entry ==
    /\ pc = "entry"
    /\ pc' = IF answer = <<>> THEN "done" ELSE "tokenizer"
    /\ UNCHANGED <<inputs, tokens, scores, invoked, aggvars, appvars>>

\* Tokenizer() and tokenize() run outside every try block
Tokenize ==
    /\ pc = "tokenizer"
    /\ invoked' = invoked \cup {"tokenizer"}
    /\ IF "tokenizer" \in faults
       THEN /\ pc' = "raised"
            /\ UNCHANGED <<tokens, word_count>>
       ELSE /\ tokens' = tokenize(answer)
            /\ word_count' = Len(tokens')
            /\ pc' = "sentiment"
    /\ UNCHANGED <<inputs, bleu_score, similarity_score, relevance_score, sentiment_score,
                   readability_score, diversity_score, conciseness_score, aggvars, appvars>>

Sentiment ==
    /\ pc = "sentiment"
    /\ invoked' = invoked \cup {"sentiment"}
    /\ sentiment_score' = sentiment(answer, nltk_loaded, "sentiment" \in faults)
    /\ pc' = "readability"
    /\ UNCHANGED <<inputs, tokens, word_count, bleu_score, similarity_score, relevance_score,
                   readability_score, diversity_score, conciseness_score, aggvars, appvars>>

Readability ==
    /\ pc = "readability"
    /\ invoked' = invoked \cup {"readability"}
    /\ readability_score' = readability(answer, "readability" \in faults)
    /\ pc' = "diversity"
    /\ UNCHANGED <<inputs, tokens, word_count, bleu_score, similarity_score, relevance_score,
                   sentiment_score, diversity_score, conciseness_score, aggvars, appvars>>

\* a variant: the diversity step shares the try block of the readability step
DiversityInReadabilityTry ==
    /\ pc = "diversity"
    /\ invoked' = invoked \cup {"diversity"}
    /\ diversity_score' = diversity(tokens, "diversity" \in faults \/ "readability" \in faults)
    /\ pc' = "conciseness"
    /\ UNCHANGED <<inputs, tokens, word_count, bleu_score, similarity_score, relevance_score,
                   sentiment_score, readability_score, conciseness_score, aggvars, appvars>>

Diversity ==
    /\ pc = "diversity"
    /\ invoked' = invoked \cup {"diversity"}
    /\ diversity_score' = diversity(tokens, "diversity" \in faults)
    /\ pc' = "conciseness"
    /\ UNCHANGED <<inputs, tokens, word_count, bleu_score, similarity_score, relevance_score,
                   sentiment_score, readability_score, conciseness_score, aggvars, appvars>>

\* the step, then `if correct_answer:`
Conciseness ==
    /\ pc = "conciseness"
    /\ invoked' = invoked \cup {"conciseness"}
    /\ conciseness_score' = conciseness(answer, "conciseness" \in faults)
    /\ pc' = IF correct_answer # <<>> THEN "bleu" ELSE "done"
    /\ UNCHANGED <<inputs, tokens, word_count, bleu_score, similarity_score, relevance_score,
                   sentiment_score, readability_score, diversity_score, aggvars, appvars>>

Bleu ==
    /\ pc = "bleu"
    /\ invoked' = invoked \cup {"bleu"}
    /\ bleu_score' = bleu(answer, correct_answer, nltk_loaded, "bleu" \in faults)
    /\ pc' = "similarity"
    /\ UNCHANGED <<inputs, tokens, word_count, similarity_score, relevance_score,
                   sentiment_score, readability_score, diversity_score, conciseness_score,
                   aggvars, appvars>>

Similarity ==
    /\ pc = "similarity"
    /\ invoked' = invoked \cup {"similarity"}
    /\ similarity_score' = similarity(answer, correct_answer, "similarity" \in faults)
    /\ pc' = "relevance"
    /\ UNCHANGED <<inputs, tokens, word_count, bleu_score, relevance_score,
                   sentiment_score, readability_score, diversity_score, conciseness_score,
                   aggvars, appvars>>

Relevance ==
    /\ pc = "relevance"
    /\ invoked' = invoked \cup {"relevance"}
    /\ relevance_score' = relevance(answer, correct_answer, "relevance" \in faults)
    /\ pc' = "done"
    /\ UNCHANGED <<inputs, tokens, word_count, bleu_score, similarity_score,
                   sentiment_score, readability_score, diversity_score, conciseness_score,
                   aggvars, appvars>>

Next ==
    \/ Entry
    \/ Tokenize
    \/ Sentiment
    \/ Readability
    \/ Diversity
    \/ Conciseness
    \/ Bleu
    \/ Similarity
    \/ Relevance

(***************************************************************************)
(* Inputs                                                                  *)
(***************************************************************************)
MaxRuns    == 2
MaxRefRuns == 1

\* the texts of at most k runs drawn from R
Texts(R, k) == {t \in UNION {[1..m -> R] : m \in 0..k} : IsCanonical(t)}

AnswerRuns == {Run(c, 1) : c \in {"a", "A", " ", ".", "U826F", "U3044"}} \cup {Run("a", 2)}
RefRuns    == {Run("a", 1), Run("a", 2), Run(" ", 1), Run("U826F", 1)}

\* no fault, one faulty step, or every sub-scorer faulty
FaultSets == {{}} \cup {{s} : s \in Scorers} \cup {Scorers \ {"tokenizer"}}

Init ==
    \E a \in Texts(AnswerRuns, MaxRuns), c \in Texts(RefRuns, MaxRefRuns),
       loaded \in BOOLEAN, f \in FaultSets :
        CallState(a, c, loaded, f)

Spec == Init /\ [][Next]_vars

(***************************************************************************)
(* calculate_overall_quality_score                                         *)
(***************************************************************************)
\* Python's None as a metric value: a record that is no rational
None == [num |-> 0, den |-> 0]

\* the keys of `weights`, in the dict's order
WeightKeys == <<"is_correct", "bleu_score", "similarity_score", "relevance_score",
                "sentiment_score", "readability_score", "diversity_score",
                "conciseness_score">>

\* a variant: conciseness weighted 0.05
weights_short ==
    [is_correct |-> Rat(25, 100), bleu_score |-> Rat(15, 100),
     similarity_score |-> Rat(15, 100), relevance_score |-> Rat(15, 100),
     sentiment_score |-> Rat(5, 100), readability_score |-> Rat(10, 100),
     diversity_score |-> Rat(5, 100), conciseness_score |-> Rat(5, 100)]

weights ==
    [is_correct |-> Rat(25, 100), bleu_score |-> Rat(15, 100),
     similarity_score |-> Rat(15, 100), relevance_score |-> Rat(15, 100),
     sentiment_score |-> Rat(5, 100), readability_score |-> Rat(10, 100),
     diversity_score |-> Rat(5, 100), conciseness_score |-> Rat(10, 100)]

\* the loop of lines 197-200 over the first i keys
RECURSIVE WeightedSum(_, _)
WeightedSum(m, i) ==
    IF i = 0 THEN Zero
    ELSE LET metric == WeightKeys[i] IN
         IF metric \in DOMAIN m /\ m[metric] # None
         THEN RatAdd(WeightedSum(m, i - 1), RatMul(m[metric], weights[metric]))
         ELSE WeightedSum(m, i - 1)

Hundred == Rat(100, 1)

\* a variant: the sum is scaled to percent twice and not clamped
calculate_overall_quality_score_unclamped(m) ==
    RatMul(RatMul(WeightedSum(m, Len(WeightKeys)), Hundred), Hundred)

\* a variant: the sum is divided by the weights of the keys that are present
calculate_overall_quality_score_renormalised(m) ==
    LET score == WeightedSum(m, Len(WeightKeys))
        used  == WeightedSum([k \in {x \in DOMAIN m : m[x] # None} |-> One], Len(WeightKeys))
        norm  == IF used = Zero THEN Zero ELSE Rat(score.num * used.den, score.den * used.num)
    IN  RatMin(Hundred, RatMax(Zero, RatMul(norm, Hundred)))

calculate_overall_quality_score(m) ==
    LET score == WeightedSum(m, Len(WeightKeys))
    IN  RatMin(Hundred, RatMax(Zero, RatMul(score, Hundred)))

Aggregate ==
    /\ agg_pc = "call"
    /\ quality_score' = calculate_overall_quality_score(metrics_dict)
    /\ agg_pc' = "done"
    /\ UNCHANGED <<inputs, pc, tokens, scores, invoked, metrics_dict, appvars>>

NextAgg == Aggregate

\* metric values k / Grid, k = 0..Grid
Grid == 1

GridValues == {Rat(k, Grid) : k \in 0..Grid}

\* the values display_feedback_form passes as is_correct
IsCorrectValues == {Rat(0, 1), Rat(1, 2), Rat(1, 1)}

Absent == [num |-> 0, den |-> -1]

\* a dict from a choice per key of absent, None or a value
Dict(f) == [k \in {x \in DOMAIN f : f[x] # Absent} |-> f[k]]

KeySet == {WeightKeys[i] : i \in DOMAIN WeightKeys}

MetricDicts ==
    {Dict(f) : f \in {g \in [KeySet -> GridValues \cup IsCorrectValues \cup {None, Absent}] :
                        /\ g["is_correct"] \in IsCorrectValues \cup {None, Absent}
                        /\ \A k \in KeySet \ {"is_correct"} : g[k] \in GridValues \cup {None, Absent}}}

InitAgg ==
    /\ SessionStart
    /\ metrics_dict \in MetricDicts
    /\ agg_pc = "call"
    /\ quality_score = Zero
    /\ answer = <<>>
    /\ correct_answer = <<>>
    /\ nltk_loaded = TRUE
    /\ faults = {}
    /\ pc = "idle"
    /\ tokens = <<>>
    /\ invoked = {}
    /\ Defaults

SpecAgg == InitAgg /\ [][NextAgg]_vars

(***************************************************************************)
(* Long answers: sentence lengths around the readability thresholds        *)
(***************************************************************************)
MaxLongRuns == 3

SentenceLengths == {1, 39, 40, 41, 79, 80, 81, 100, 119, 120, 121, 160}

LongRuns == {Run("a", k) : k \in SentenceLengths} \cup {Run(".", 1), Run(" ", 1)}

InitLong ==
    \E a \in Texts(LongRuns, MaxLongRuns), c \in {<<>>, <<Run("a", 1)>>},
       loaded \in BOOLEAN, f \in {{}, {"readability"}} :
        CallState(a, c, loaded, f)

SpecLong == InitLong /\ [][Next]_vars

(***************************************************************************)
(* Answers of the lengths around the conciseness thresholds                *)
(***************************************************************************)
MaxConciseRuns == 2

AnswerLengths == {1, 25, 49, 50, 150, 300, 301, 650, 999, 1000, 1001, 1300}

ConciseRuns == {Run("a", k) : k \in AnswerLengths} \cup {Run(".", 1), Run(" ", 1)}

InitConcise ==
    \E a \in Texts(ConciseRuns, MaxConciseRuns), c \in {<<>>, <<Run("a", 1)>>},
       loaded \in BOOLEAN, f \in {{}, {"conciseness"}} :
        CallState(a, c, loaded, f)

SpecConcise == InitConcise /\ [][Next]_vars

(***************************************************************************)
(* Answers and references of several words                                 *)
(***************************************************************************)
MaxWordRuns == 3

WordRuns == {Run(c, 1) : c \in {"a", "A", "b", " "}}

InitWords ==
    \E a \in Texts(WordRuns, MaxWordRuns), c \in Texts(WordRuns, MaxWordRuns),
       f \in {{}, {"relevance"}} :
        CallState(a, c, TRUE, f)

SpecWords == InitWords /\ [][Next]_vars

\* ---------------------------------------------------------------------------
\* Japanese answers: dictionary words, repeated words and keyword counts
\* ---------------------------------------------------------------------------
MaxJaRuns == 4

JaRuns == {Run(c, 1) : c \in {"U826F", "U3044", "U60AA", "U7C21", "U5358", "a"}}

\* the one-character answers are also scored against a reference
InitJa ==
    \E a \in Texts(JaRuns, MaxJaRuns), loaded \in BOOLEAN,
       f \in {{}, {"sentiment"}, {"diversity"}} :
        \E c \in IF Len(a) <= 1 THEN {<<>>, <<Run("U826F", 1), Run("U3044", 1)>>} ELSE {<<>>} :
            CallState(a, c, loaded, f)

SpecJa == InitJa /\ [][Next]_vars

(***************************************************************************)
(* The application: database.py and the chat and data pages of ui.py       *)
(***************************************************************************)
\* calculate_metrics(a, c) as one call: its result, or raised when the
\* tokenizer fails
calculate_metrics(a, c, loaded, f) ==
    LET initial == [raised |-> FALSE, word_count |-> 0,
                    bleu_score |-> Zero, similarity_score |-> Zero,
                    relevance_score |-> Zero, sentiment_score |-> Half,
                    readability_score |-> Zero, diversity_score |-> Zero,
                    conciseness_score |-> Zero]
    IN  IF a = <<>> THEN initial
        ELSE IF "tokenizer" \in f THEN [initial EXCEPT !.raised = TRUE]
        ELSE LET toks == tokenize(a)
             IN  [raised |-> FALSE,
                  word_count |-> Len(toks),
                  sentiment_score |-> sentiment(a, loaded, "sentiment" \in f),
                  readability_score |-> readability(a, "readability" \in f),
                  diversity_score |-> diversity(toks, "diversity" \in f),
                  conciseness_score |-> conciseness(a, "conciseness" \in f),
                  bleu_score |-> IF c # <<>> THEN bleu(a, c, loaded, "bleu" \in f) ELSE Zero,
                  similarity_score |-> IF c # <<>> THEN similarity(a, c, "similarity" \in f)
                                       ELSE Zero,
                  relevance_score |-> IF c # <<>> THEN relevance(a, c, "relevance" \in f)
                                      ELSE Zero]

\* what sqlite3 does in one call of save_to_db or clear_db: nothing fails,
\* connect() fails, or execute() or commit() fails
DbOutcomes == {"ok", "connect_error", "write_error"}

\* the row save_to_db inserts (timestamp and feedback text left out)
Row(question, ans, c, is_correct, rt, m, quality) ==
    [question |-> question, answer |-> ans, correct_answer |-> c,
     is_correct |-> is_correct, response_time |-> rt,
     bleu_score |-> m.bleu_score, similarity_score |-> m.similarity_score,
     word_count |-> m.word_count, relevance_score |-> m.relevance_score,
     sentiment_score |-> m.sentiment_score, readability_score |-> m.readability_score,
     diversity_score |-> m.diversity_score, conciseness_score |-> m.conciseness_score,
     quality_score |-> quality]

\* a variant: metrics_dict is built without the is_correct key
save_to_db_without_is_correct(tbl, question, ans, c, is_correct, rt, loaded, f, db) ==
    IF db = "connect_error" THEN [raised |-> FALSE, table |-> tbl, shown |-> {"save_error"}]
    ELSE LET m == calculate_metrics(ans, c, loaded, f)
         IN  IF m.raised THEN [raised |-> TRUE, table |-> tbl, shown |-> {"exception"}]
             ELSE LET dict == [k \in KeySet \ {"is_correct"} |-> m[k]]
                      quality == calculate_overall_quality_score(dict)
                  IN  IF db = "ok"
                      THEN [raised |-> FALSE, shown |-> {},
                            table |-> Append(tbl, Row(question, ans, c, is_correct, rt, m, quality))]
                      ELSE [raised |-> FALSE, table |-> tbl, shown |-> {"save_error"}]

\* save_to_db: the table afterwards, the messages displayed, and whether an
\* exception left the function (only sqlite3.Error is caught)
save_to_db(tbl, question, ans, c, is_correct, rt, loaded, f, db) ==
    IF db = "connect_error" THEN [raised |-> FALSE, table |-> tbl, shown |-> {"save_error"}]
    ELSE LET m == calculate_metrics(ans, c, loaded, f)
         IN  IF m.raised THEN [raised |-> TRUE, table |-> tbl, shown |-> {"exception"}]
             ELSE LET dict == [k \in KeySet |-> IF k = "is_correct" THEN is_correct ELSE m[k]]
                      quality == calculate_overall_quality_score(dict)
                  IN  IF db = "ok"
                      THEN [raised |-> FALSE, shown |-> {},
                            table |-> Append(tbl, Row(question, ans, c, is_correct, rt, m, quality))]
                      ELSE [raised |-> FALSE, table |-> tbl, shown |-> {"save_error"}]

\* a variant: the except branch does not reset confirm_clear
clear_db_error_keeps_flag(tbl, confirmed, db) ==
    IF ~confirmed
    THEN [table |-> tbl, confirm_clear |-> TRUE, result |-> "False",
          shown |-> {"confirm_warning"}]
    ELSE IF db = "ok"
    THEN [table |-> <<>>, confirm_clear |-> FALSE, result |-> "True", shown |-> {"cleared"}]
    ELSE [table |-> tbl, confirm_clear |-> confirmed, result |-> "False",
          shown |-> {"clear_error"}]

\* clear_db: the table and the flag afterwards, the return value, the message
clear_db(tbl, confirmed, db) ==
    IF ~confirmed
    THEN [table |-> tbl, confirm_clear |-> TRUE, result |-> "False",
          shown |-> {"confirm_warning"}]
    ELSE IF db = "ok"
    THEN [table |-> <<>>, confirm_clear |-> FALSE, result |-> "True", shown |-> {"cleared"}]
    ELSE [table |-> tbl, confirm_clear |-> FALSE, result |-> "False",
          shown |-> {"clear_error"}]

\* the questions typed into the chat form
Questions == {"q1", "q2"}

\* the answers the language model gives
Answers == { <<Run("a", 2)>>, <<Run("a", 2), Run(" ", 1), Run("b", 2)>> }

\* the texts typed into the field for a better answer
CorrectAnswers == { <<>>, <<Run("a", 2), Run(" ", 1), Run("b", 2)>> }

\* generate_response(pipe, question): an answer and the time it took
generate_response(question) == {[answer |-> a, response_time |-> One] : a \in Answers}

MaxMessages == 4

\* `if st.session_state.current_question and not st.session_state.current_answer`
GenerationPending == current_question # "" /\ current_answer = <<>>

\* `if st.session_state.current_answer and not st.session_state.feedback_given`
FeedbackFormRendered == current_answer # <<>> /\ ~feedback_given

\* the button of display_feedback_form is drawn inside the feedback form's
\* function, under `if st.session_state.feedback_given`
NextQuestionRendered == FeedbackFormRendered /\ feedback_given

\* the chat form is submitted with a non-empty question; the script run that
\* generates the answer follows the rerun at once, so the form is not
\* submitted while a generation is pending
SubmitQuestion ==
    /\ ~GenerationPending
    /\ Len(chat_messages) < MaxMessages
    /\ \E user_question \in Questions :
        /\ IF current_answer # <<>> /\ ~feedback_given
           THEN current_answer' = <<>> /\ feedback_given' = FALSE
           ELSE UNCHANGED <<current_answer, feedback_given>>
        /\ current_question' = user_question
        /\ chat_messages' = Append(chat_messages, [is_user |-> TRUE, content |-> user_question])
    /\ shown' = {}
    /\ UNCHANGED <<response_time, confirm_clear, llm_calls, table, clear_result>>
    /\ UNCHANGED <<inputs, pc, tokens, scores, invoked, aggvars>>

\* the script run after a question was stored
Generate ==
    /\ GenerationPending
    /\ \E r \in generate_response(current_question) :
        /\ current_answer' = r.answer
        /\ response_time' = r.response_time
        /\ chat_messages' = Append(chat_messages, [is_user |-> FALSE, content |-> r.answer])
    /\ llm_calls' = Append(llm_calls, current_question)
    /\ shown' = {}
    /\ UNCHANGED <<current_question, feedback_given, confirm_clear, table, clear_result>>
    /\ UNCHANGED <<inputs, pc, tokens, scores, invoked, aggvars>>

\* the feedback form is submitted: without a rating an error is shown; with
\* one the record is saved and feedback_given set, unless save_to_db raises
SubmitFeedback ==
    /\ FeedbackFormRendered
    /\ \E is_correct \in IsCorrectValues \cup {None}, c \in CorrectAnswers, db \in DbOutcomes :
        IF is_correct = None
        THEN /\ shown' = {"select_rating"}
             /\ UNCHANGED <<feedback_given, table>>
        ELSE LET saved == save_to_db(table, current_question, current_answer, c, is_correct,
                                     response_time, nltk_loaded, faults, db)
             IN  /\ table' = saved.table
                 /\ feedback_given' = IF saved.raised THEN feedback_given ELSE TRUE
                 /\ shown' = IF saved.raised THEN saved.shown
                             ELSE saved.shown \cup {"feedback_sent"}
    /\ UNCHANGED <<chat_messages, current_question, current_answer, response_time,
                   confirm_clear, llm_calls, clear_result>>
    /\ UNCHANGED <<inputs, pc, tokens, scores, invoked, aggvars>>

\* the button that resets the session for the next question
NextQuestion ==
    /\ NextQuestionRendered
    /\ current_question' = ""
    /\ current_answer' = <<>>
    /\ response_time' = Zero
    /\ feedback_given' = FALSE
    /\ shown' = {}
    /\ UNCHANGED <<chat_messages, confirm_clear, llm_calls, table, clear_result>>
    /\ UNCHANGED <<inputs, pc, tokens, scores, invoked, aggvars>>

\* the clear button of the data page
ClearDb ==
    /\ \E db \in DbOutcomes :
        LET r == clear_db(table, confirm_clear, db)
        IN  /\ table' = r.table
            /\ confirm_clear' = r.confirm_clear
            /\ clear_result' = r.result
            /\ shown' = r.shown
    /\ UNCHANGED <<chat_messages, current_question, current_answer, response_time,
                   feedback_given, llm_calls>>
    /\ UNCHANGED <<inputs, pc, tokens, scores, invoked, aggvars>>

\* NextQuestion is left out: its button is never drawn (NextQuestionRendered
\* is FALSE in every state)
NextApp ==
    \/ SubmitQuestion
    \/ Generate
    \/ SubmitFeedback
    \/ ClearDb

InitApp ==
    /\ SessionStart
    /\ answer = <<>>
    /\ correct_answer = <<>>
    /\ \E env \in {<<TRUE, {}>>, <<TRUE, {"tokenizer"}>>, <<FALSE, {"bleu"}>>} :
           nltk_loaded = env[1] /\ faults = env[2]
    /\ pc = "idle"
    /\ tokens = <<>>
    /\ invoked = {}
    /\ Defaults
    /\ metrics_dict = << >>
    /\ quality_score = Zero
    /\ agg_pc = "idle"

SpecApp == InitApp /\ [][NextApp]_vars

(***************************************************************************)
(* Properties                                                              *)
(***************************************************************************)
\* the sum of the rationals f[x], x in S
RECURSIVE RatSum(_, _)
RatSum(f, S) ==
    IF S = {} THEN Zero
    ELSE LET x == CHOOSE y \in S : TRUE IN RatAdd(f[x], RatSum(f, S \ {x}))

\* C1: calculate_metrics is total: whatever fails inside it, a tokenizer
\* failure included, no exception escapes to the caller.
C1_NoExceptionEscapes == pc # "raised"

PresentKeys(m) == {k \in KeySet : k \in DOMAIN m /\ m[k] # None}

\* C2: for every mapping whose weighted keys are absent, None or in [0,1],
\* calculate_overall_quality_score returns a value in [0,100].
C2_ScoreWithinBounds ==
    agg_pc = "done" =>
        /\ \A k \in PresentKeys(metrics_dict) : InUnit(metrics_dict[k])
        /\ RatLE(Zero, quality_score)
        /\ RatLE(quality_score, Hundred)

C2_Witness ==
    /\ agg_pc = "done"
    /\ "is_correct" \notin DOMAIN metrics_dict
    /\ "bleu_score" \in DOMAIN metrics_dict /\ metrics_dict["bleu_score"] = None
    /\ RatLT(Zero, quality_score)
    /\ RatLT(quality_score, Hundred)

\* C3: every present, non-None key contributes value * weight, an absent or
\* None key contributes 0 and the other weights are not renormalised; the
\* result is clamp(0, 100, 100 * sum), so without is_correct it is at most 75.
C3_AbsentContributesZero ==
    agg_pc = "done" =>
        LET P   == PresentKeys(metrics_dict)
            raw == RatSum([k \in P |-> RatMul(metrics_dict[k], weights[k])], P)
            pct == RatMul(raw, Hundred)
        IN  /\ quality_score = (IF RatLT(pct, Zero) THEN Zero
                                ELSE IF RatLT(Hundred, pct) THEN Hundred ELSE pct)
            /\ "is_correct" \notin P => RatLE(quality_score, Rat(75, 1))

C3_Witness ==
    /\ agg_pc = "done"
    /\ "is_correct" \notin DOMAIN metrics_dict
    /\ \A k \in KeySet \ {"is_correct"} : k \in DOMAIN metrics_dict /\ metrics_dict[k] = One
    /\ quality_score = Rat(75, 1)

AllEqual(m, v) == \A k \in KeySet : k \in DOMAIN m /\ m[k] = v

\* C4: the eight weights are 0.25, 0.15, 0.15, 0.15, 0.05, 0.10, 0.05, 0.10, none
\* negative, and sum to 1; all eight metrics equal to 1 give 100 and all
\* eight equal to 0 give 0.
C4_WeightsSumToOne ==
    /\ weights = [is_correct |-> Rat(1, 4), bleu_score |-> Rat(3, 20),
                  similarity_score |-> Rat(3, 20), relevance_score |-> Rat(3, 20),
                  sentiment_score |-> Rat(1, 20), readability_score |-> Rat(1, 10),
                  diversity_score |-> Rat(1, 20), conciseness_score |-> Rat(1, 10)]
    /\ \A k \in KeySet : RatLE(Zero, weights[k])
    /\ RatSum(weights, KeySet) = One
    /\ (agg_pc = "done" /\ AllEqual(metrics_dict, One)) => quality_score = Hundred
    /\ (agg_pc = "done" /\ AllEqual(metrics_dict, Zero)) => quality_score = Zero

C4_Witness == agg_pc = "done" /\ AllEqual(metrics_dict, One) /\ quality_score = Hundred

SubScorers == Scorers \ {"tokenizer"}

\* the value of each score after a call that returns, had no step failed
Unfailed ==
    LET ref == correct_answer # <<>> IN
    [sentiment   |-> sentiment(answer, nltk_loaded, FALSE),
     readability |-> readability(answer, FALSE),
     diversity   |-> diversity(tokenize(answer), FALSE),
     conciseness |-> conciseness(answer, FALSE),
     bleu        |-> IF ref THEN bleu(answer, correct_answer, nltk_loaded, FALSE) ELSE Zero,
     similarity  |-> IF ref THEN similarity(answer, correct_answer, FALSE) ELSE Zero,
     relevance   |-> IF ref THEN relevance(answer, correct_answer, FALSE) ELSE Zero]

\* the documented default of a failed sub-scorer
FailedValue(s) == IF s = "sentiment" THEN sentiment_keywords(answer) ELSE Zero

Returned ==
    [sentiment |-> sentiment_score, readability |-> readability_score,
     diversity |-> diversity_score, conciseness |-> conciseness_score,
     bleu |-> bleu_score, similarity |-> similarity_score, relevance |-> relevance_score]

\* C5: when exactly one sub-scorer fails, its score alone takes its default
\* (0, or the keyword fallback for sentiment) and every other field of the
\* result is what it is when nothing fails.
C5_FailureIsolated ==
    \A s \in SubScorers :
        (pc = "done" /\ faults = {s} /\ s \in invoked) =>
            /\ Returned[s] = FailedValue(s)
            /\ \A o \in SubScorers \ {s} : Returned[o] = Unfailed[o]
            /\ word_count = Len(tokenize(answer))

C5_Witness ==
    /\ pc = "done"
    /\ nltk_loaded
    /\ faults = {"readability"}
    /\ readability_score = Zero
    /\ Unfailed["readability"] = One
    /\ diversity_score = One
    /\ relevance_score = One
    /\ similarity_score = One

\* F1 of the unique words of the two lower-cased texts split at white space
WordF1(ans, ref) ==
    LET C == ToSet(split(lower(ans)))
        R == ToSet(split(lower(ref)))
        k == Cardinality(C \cap R)
    IN  IF k = 0 THEN Zero ELSE Rat(2 * k, Cardinality(C) + Cardinality(R))

\* C6: with the fallback functions installed, the BLEU step of a call with a
\* non-empty candidate and a non-empty reference returns the unique-word F1
\* 2PR/(P+R), P = |common|/|candidate_set|, R = |common|/|reference_set|.
C6_FallbackBleuIsF1 ==
    (pc = "done" /\ ~nltk_loaded /\ answer # <<>> /\ correct_answer # <<>>
       /\ "bleu" \notin faults) =>
        bleu_score = WordF1(answer, correct_answer)

\* the fragments that count as sentences: the pieces between terminators
\* that hold a character other than white space
SentenceCount(t) ==
    LET content(i) == t[i].ch \notin Terminators \cup SpaceChars
        joined(j, i) == \A k \in j..i : t[k].ch \notin Terminators
    IN  Cardinality({i \in DOMAIN t :
            content(i) /\ \A j \in 1..(i - 1) : joined(j, i) => ~content(j)})

ReadabilityRan ==
    pc = "done" /\ answer # <<>> /\ "readability" \notin faults /\ SentenceCount(answer) > 0

\* C7 as stated: readability is 0.0 whenever the average sentence length is 80
\* or more (a triangle peaking at 40 and reaching 0 at 80).
C7_ZeroFrom80 ==
    (ReadabilityRan /\ TextLen(answer) >= 80 * SentenceCount(answer)) =>
        readability_score = Zero

\* C7 as amended: readability is 0.0 whenever the average sentence length is
\* 120 or more; it is 1.0 up to an average of 80 and falls linearly from 1 at
\* 80 to 0 at 120.
C7_ZeroFrom120 ==
    ReadabilityRan =>
        LET L == TextLen(answer)
            c == SentenceCount(answer)
        IN  /\ L >= 120 * c => readability_score = Zero
            /\ L <= 80 * c => readability_score = One
            /\ (80 * c < L /\ L < 120 * c) => readability_score = Rat(120 * c - L, 40 * c)

C7_Witness ==
    /\ ReadabilityRan
    /\ TextLen(answer) = 80 * SentenceCount(answer)
    /\ SentenceCount(answer) = 2
    /\ readability_score = One

\* C8: for a non-empty candidate readability is clamp(0, 1, 2 - |avg - 40| / 40),
\* avg = len(candidate) / number of non-blank fragments; it lies in [0,1], is
\* 1.0 at an average of exactly 40 and 0 when no non-blank fragment remains.
C8_ReadabilityFormula ==
    (pc = "done" /\ answer # <<>> /\ "readability" \notin faults) =>
        LET L == TextLen(answer)
            c == SentenceCount(answer)
            v == Rat(80 * c - Abs(L - 40 * c), 40 * c)
        IN  /\ InUnit(readability_score)
            /\ c = 0 => readability_score = Zero
            /\ c > 0 => readability_score =
                           (IF RatLT(v, Zero) THEN Zero ELSE IF RatLT(One, v) THEN One ELSE v)
            /\ (c > 0 /\ L = 40 * c) => readability_score = One

C8_Witness ==
    /\ pc = "done"
    /\ "readability" \notin faults
    /\ SentenceCount(answer) = 1
    /\ Len(re_split(answer)) = 2
    /\ RatLT(Zero, readability_score)
    /\ RatLT(readability_score, One)

\* C9: with an empty reference bleu, similarity and relevance are 0.0, and
\* word_count and the reference-independent scores are computed from the
\* candidate alone, as they are when a reference is given.
C9_EmptyReference ==
    pc = "done" =>
        /\ correct_answer = <<>> =>
              bleu_score = Zero /\ similarity_score = Zero /\ relevance_score = Zero
        /\ answer # <<>> =>
              /\ word_count = Len(tokenize(answer))
              /\ sentiment_score = sentiment(answer, nltk_loaded, "sentiment" \in faults)
              /\ readability_score = readability(answer, "readability" \in faults)
              /\ diversity_score = diversity(tokenize(answer), "diversity" \in faults)
              /\ conciseness_score = conciseness(answer, "conciseness" \in faults)

C9_Witness ==
    /\ pc = "done"
    /\ correct_answer = <<>>
    /\ faults = {}
    /\ word_count = 2
    /\ diversity_score = One
    /\ conciseness_score = Rat(2, 50)
    /\ sentiment_score = Half

\* C10: with an empty candidate the call returns the defaults for every
\* reference: word_count 0, sentiment 0.5, every other score 0, and no
\* sub-scorer is invoked.
C10_EmptyCandidate ==
    (answer = <<>> /\ pc # "entry") => (pc = "done" /\ Defaults /\ invoked = {})

C10_Witness ==
    /\ answer = <<>>
    /\ pc = "done"
    /\ correct_answer # <<>>
    /\ "tokenizer" \in faults

\* C11: for a candidate of L >= 1 characters conciseness is L/50 below 50,
\* 1.0 from 50 to 300 and max(0, 1 - (L - 300) / 700) above 300; it lies in
\* [0,1], is 0 from 1000 on, and is 0.5, 1.0, 0.5, 0.0 at 25, 150, 650, 1000.
C11_ConcisenessPiecewise ==
    (pc = "done" /\ answer # <<>> /\ "conciseness" \notin faults) =>
        LET L == TextLen(answer) IN
        /\ L >= 1
        /\ InUnit(conciseness_score)
        /\ L < 50 => conciseness_score = Rat(L, 50)
        /\ (50 <= L /\ L <= 300) => conciseness_score = One
        /\ (300 < L /\ L < 1000) => conciseness_score = Rat(1000 - L, 700)
        /\ L >= 1000 => conciseness_score = Zero
        /\ L = 25 => conciseness_score = Half
        /\ L = 150 => conciseness_score = One
        /\ L = 650 => conciseness_score = Half

C11_Witness ==
    /\ pc = "done"
    /\ "conciseness" \notin faults
    /\ TextLen(answer) = 650
    /\ conciseness_score = Half

\* the lower-cased words of a text: its maximal pieces of \w characters
WordSet(t) ==
    LET u == lower(t)
        word(i, j) == \A k \in i..j : u[k].ch \in WordChars
    IN  {SubSeq(u, i, j) : <<i, j>> \in
            {p \in (DOMAIN u) \X (DOMAIN u) :
                /\ p[1] <= p[2]
                /\ word(p[1], p[2])
                /\ (p[1] = 1 \/ u[p[1] - 1].ch \notin WordChars)
                /\ (p[2] = Len(u) \/ u[p[2] + 1].ch \notin WordChars)}}

\* C12: for a non-empty candidate and reference relevance is
\* |candidate_words /\ reference_words| / |reference_words| over lower-cased
\* word sets, 0.0 when the reference has no word, in [0,1], and 1.0 when the
\* candidate holds every reference word (so when candidate = reference).
C12_RelevanceIsRecall ==
    (pc = "done" /\ answer # <<>> /\ correct_answer # <<>> /\ "relevance" \notin faults) =>
        LET A == WordSet(answer)
            R == WordSet(correct_answer)
        IN  /\ InUnit(relevance_score)
            /\ R = {} => relevance_score = Zero
            /\ R # {} => relevance_score = Rat(Cardinality(A \cap R), Cardinality(R))
            /\ (R # {} /\ R \subseteq A) => relevance_score = One
            /\ (R # {} /\ answer = correct_answer) => relevance_score = One

C12_Witness ==
    /\ pc = "done"
    /\ "relevance" \notin faults
    /\ answer # lower(answer)
    /\ Cardinality(WordSet(correct_answer)) = 2
    /\ relevance_score = Half

\* ---------------------------------------------------------------------------
\* C13: when the diversity step does not fail, diversity_score is the number
\* of distinct token surfaces divided by the number of tokens, or 0 for an
\* empty token sequence; for a non-empty token sequence it lies in (0, 1],
\* it is 1.0 when all tokens differ and 1 / word_count when all are the same
\* ---------------------------------------------------------------------------
FirstOccurrences(s) == {i \in DOMAIN s : \A j \in 1..(i - 1) : s[j] # s[i]}

C13_DiversityIsDistinctRatio ==
    (pc = "done" /\ "diversity" \notin faults) =>
        /\ tokens = <<>> => diversity_score = Zero
        /\ tokens # <<>> =>
            /\ RatMul(diversity_score, Rat(Len(tokens), 1))
                   = Rat(Cardinality(FirstOccurrences(tokens)), 1)
            /\ RatLT(Zero, diversity_score) /\ RatLE(diversity_score, One)
            /\ (\A i, j \in DOMAIN tokens : i # j => tokens[i] # tokens[j])
                   => diversity_score = One
            /\ (\A i, j \in DOMAIN tokens : tokens[i] = tokens[j])
                   => RatMul(diversity_score, Rat(word_count, 1)) = One

C13_Witness ==
    /\ pc = "done" /\ "diversity" \notin faults
    /\ word_count = 2 /\ tokens[1] = tokens[2]
    /\ diversity_score = Half

\* ---------------------------------------------------------------------------
\* C14: when the primary sentiment analyzer fails on a non-empty candidate,
\* sentiment_score is positive_count / (positive_count + negative_count) when
\* that sum is positive and 0.5 otherwise, the counts being the numbers of
\* words of the two fixed six-word lists that occur in the answer text; the
\* score lies in [0, 1] and the call still returns
\* ---------------------------------------------------------------------------
OccursIn(cs, w) == \E i \in 1..(Len(cs) - Len(w) + 1) : SubSeq(cs, i, i + Len(w) - 1) = w

ListedIn(cs, words) == Cardinality({k \in DOMAIN words : OccursIn(cs, words[k])})

PrimaryFailed == "sentiment" \in faults \/ ~nltk_loaded

C14_KeywordFallback ==
    /\ (answer # <<>> /\ PrimaryFailed) => pc # "raised"
    /\ (pc = "done" /\ answer # <<>> /\ PrimaryFailed) =>
        LET positive_count == ListedIn(Expand(answer), positive_words)
            negative_count == ListedIn(Expand(answer), negative_words)
        IN  /\ Len(positive_words) = 6 /\ Len(negative_words) = 6
            /\ InUnit(sentiment_score)
            /\ positive_count + negative_count > 0 =>
                   RatMul(sentiment_score, Rat(positive_count + negative_count, 1))
                       = Rat(positive_count, 1)
            /\ positive_count + negative_count = 0 => sentiment_score = Half

C14_Witness ==
    /\ pc = "done" /\ "sentiment" \in faults /\ nltk_loaded
    /\ ListedIn(Expand(answer), positive_words) = 2
    /\ ListedIn(Expand(answer), negative_words) = 0
    /\ sentiment_score = One

\* ---------------------------------------------------------------------------
\* C15: on the chat page every question submitted through the chat form is
\* followed by a call of generate_response for that question and by an AI
\* message: whenever the last message of chat_messages is a user's question,
\* the generation of its answer is pending (before any answer, while feedback
\* is pending, and after feedback was given)
\* ---------------------------------------------------------------------------
LastMessage == chat_messages[Len(chat_messages)]

C15_QuestionIsAnswered ==
    (chat_messages # <<>> /\ LastMessage.is_user) =>
        GenerationPending /\ current_question = LastMessage.content

\* once feedback was given the session keeps its answer and its flag: no
\* handler that is reachable resets them
FeedbackGivenIsAbsorbing ==
    [][(feedback_given /\ current_answer # <<>>) =>
           (feedback_given' /\ current_answer' = current_answer
               /\ llm_calls' = llm_calls)]_vars

\* the button that would reset the session is never drawn
NextQuestionNeverRendered == ~NextQuestionRendered

\* what does hold: a question asked before feedback was given is answered
AnsweredUnlessFeedbackGiven ==
    (chat_messages # <<>> /\ LastMessage.is_user /\ ~feedback_given) =>
        GenerationPending /\ current_question = LastMessage.content

\* ---------------------------------------------------------------------------
\* C16: clear_db is a two-step confirmation over confirm_clear: no step taken
\* while confirm_clear is FALSE removes a row; a call made while it is FALSE
\* leaves the table alone, sets the flag and returns False; rows are removed
\* only by a call made while the flag is TRUE; after a call that attempted
\* the delete (success or database error) the flag is FALSE again
\* ---------------------------------------------------------------------------
ClearMessages == {"confirm_warning", "cleared", "clear_error"}

C16_TwoStepClear ==
    /\ [](shown = {"confirm_warning"} => (confirm_clear /\ clear_result = "False"))
    /\ [](shown \cap {"cleared", "clear_error"} # {} => ~confirm_clear)
    /\ [](shown = {"clear_error"} => clear_result = "False")
    /\ [][ /\ ~confirm_clear => \A i \in DOMAIN table : i \in DOMAIN table' /\ table'[i] = table[i]
           /\ (~confirm_clear /\ shown' \cap ClearMessages # {}) =>
                  (shown' = {"confirm_warning"} /\ table' = table /\ confirm_clear')
           /\ Len(table') < Len(table) => (confirm_clear /\ shown' = {"cleared"})
           /\ (confirm_clear /\ confirm_clear') => shown' \cap ClearMessages = {}
         ]_vars

C16_Witness ==
    /\ shown = {"clear_error"}
    /\ table # <<>>
    /\ ~confirm_clear

\* ---------------------------------------------------------------------------
\* C17: every row save_to_db inserted is consistent: its quality_score is
\* calculate_overall_quality_score of the is_correct value and the seven
\* scores of the same row, these scores are the metrics of the row's own
\* answer and correct_answer, no row lacks a column, and a call that met a
\* database error stores nothing
\* ---------------------------------------------------------------------------
Columns == {"question", "answer", "correct_answer", "is_correct", "response_time",
            "bleu_score", "similarity_score", "word_count", "relevance_score",
            "sentiment_score", "readability_score", "diversity_score",
            "conciseness_score", "quality_score"}

RowIsConsistent(r) ==
    /\ DOMAIN r = Columns
    /\ r.is_correct \in IsCorrectValues
    /\ r.quality_score =
           RatMin(Hundred, RatMax(Zero, RatMul(Hundred,
               RatSum([k \in KeySet |-> RatMul(weights[k], r[k])], KeySet))))
    /\ r.answer # <<>> =>
        /\ r.word_count = Len(tokenize(r.answer))
        /\ r.sentiment_score = sentiment(r.answer, nltk_loaded, "sentiment" \in faults)
        /\ r.readability_score = readability(r.answer, "readability" \in faults)
        /\ r.diversity_score = diversity(tokenize(r.answer), "diversity" \in faults)
        /\ r.conciseness_score = conciseness(r.answer, "conciseness" \in faults)
        /\ r.correct_answer = <<>> =>
               (r.bleu_score = Zero /\ r.similarity_score = Zero /\ r.relevance_score = Zero)
        /\ r.correct_answer # <<>> =>
            /\ r.bleu_score = bleu(r.answer, r.correct_answer, nltk_loaded, "bleu" \in faults)
            /\ r.similarity_score = similarity(r.answer, r.correct_answer, "similarity" \in faults)
            /\ r.relevance_score = relevance(r.answer, r.correct_answer, "relevance" \in faults)

C17_RecordsConsistent ==
    /\ [](\A i \in DOMAIN table : RowIsConsistent(table[i]))
    /\ [][ /\ "save_error" \in shown' => table' = table
           /\ Len(table') > Len(table) =>
                  /\ Len(table') = Len(table) + 1
                  /\ SubSeq(table', 1, Len(table)) = table
                  /\ table'[Len(table')].question = current_question
                  /\ table'[Len(table')].answer = current_answer
                  /\ shown' = {"feedback_sent"}
         ]_vars

C17_Witness ==
    /\ table # <<>>
    /\ table[1].correct_answer # <<>>
    /\ table[1].correct_answer # table[1].answer
    /\ table[1].is_correct = Half
    /\ RatLT(Zero, table[1].similarity_score)
    /\ table[1].relevance_score = Half
    /\ RatLT(Rat(25, 2), table[1].quality_score)
====
